---- MODULE Spec2Model ----
(***************************************************************************)
(* Token service (auth.py: TokenManager), authorization gates (auth.py:     *)
(* token_required, optional_token; function_app.py: get_user_from_token),   *)
(* the task operations and the login callback, logout and refresh exchange  *)
(* of both deployments (app.py, function_app.py).                           *)
(*                                                                          *)
(* Time is counted in ticks, TicksPerSec ticks to the second, so that the   *)
(* truncation of datetimes to whole seconds by jwt.encode is visible.       *)
(* A string is a sequence of pieces: the space character, a word without    *)
(* spaces, or a serialized JWT (a record with header, payload, signature).  *)
(***************************************************************************)
EXTENDS Integers, Sequences, FiniteSets, TLC

VARIABLES
    now,      \* the wall clock (datetime.utcnow()), in ticks
    held,     \* the token issued last, which the client holds (none at first)
    tasks,    \* the task table: task id -> row
    nextId,   \* number of task rows created so far (ids are fresh uuids)
    last,     \* the last call or request handled, with its outcome
    users,    \* the user table: user id -> row
    nextUser, \* number of user rows created so far (ids are fresh uuids)
    session,  \* the browser session kept by the server deployment
    calls     \* the login callbacks in progress: worker -> position and locals

vars == <<now, held, tasks, nextId, last, users, nextUser, session, calls>>

\* What the token manager, the gates and the task operations leave alone
accounts == <<users, nextUser, session, calls>>

---------------------------------------------------------------------------
(* Bounds of the model *)

TicksPerSec == 2
Window == 2
MaxDrift == 1
MaxTasks == 1

---------------------------------------------------------------------------
(* Configuration: auth.py:15-18 *)

JWT_SECRET == "server-secret"
JWT_ALGORITHM == "HS256"
JWT_EXPIRATION_HOURS == 24
REFRESH_EXPIRATION_DAYS == 30

OtherSecret == "other-secret"
Algorithms == {"HS256", "HS512", "none"}

UserIds == {"u1", "u2"}
Emails == {"a@b.com", "c@d.com"}
Names == {"Ann", "Bob"}

\* Python's None as an object, and as the result of dict.get on a missing key
None == [none |-> TRUE]
NoValue == "None"
\* None where a string is expected
NoString == << None >>

\* An empty flask session
NoSession == << >>

\* timedelta(hours=JWT_EXPIRATION_HOURS) and timedelta(days=30), in ticks
AccessDelta == JWT_EXPIRATION_HOURS * 3600 * TicksPerSec
RefreshDelta == REFRESH_EXPIRATION_DAYS * 86400 * TicksPerSec

\* The instants the clock is sampled at: a window after the start, and
\* windows around the two expiry horizons.
Instants ==
    UNION { b .. (b + Window) : b \in {0, AccessDelta - 1, RefreshDelta - 1} }

---------------------------------------------------------------------------
(* PyJWT as auth.py uses it *)

\* jwt.encode turns a datetime claim into whole seconds since the epoch
Timestamp(dt) == dt \div TicksPerSec

\* The MAC of (header, payload) under key: distinct inputs, distinct MACs
Sign(key, alg, payload) ==
    IF alg = "none" THEN <<>> ELSE <<key, alg, payload>>

\* jwt.encode(payload, key, algorithm): a one-piece string
Encode(payload, key, alg) ==
    << [alg |-> alg, payload |-> payload, sig |-> Sign(key, alg, payload)] >>

IsJwt(token) == Len(token) = 1 /\ "alg" \in DOMAIN token[1]

\* Decode with the expiry test off by one: a token is still accepted at the
\* instant it expires
DecodeLate(token, key, algorithms, t) ==
    IF ~IsJwt(token)
    THEN [ok |-> FALSE, exc |-> "DecodeError"]
    ELSE LET jwt == token[1] IN
         IF jwt.alg \notin algorithms
         THEN [ok |-> FALSE, exc |-> "InvalidAlgorithmError"]
         ELSE IF jwt.sig # Sign(key, jwt.alg, jwt.payload)
         THEN [ok |-> FALSE, exc |-> "InvalidSignatureError"]
         ELSE IF "exp" \in DOMAIN jwt.payload
                 /\ jwt.payload.exp * TicksPerSec < t
         THEN [ok |-> FALSE, exc |-> "ExpiredSignatureError"]
         ELSE [ok |-> TRUE, payload |-> jwt.payload]

\* jwt.decode(token, key, algorithms=[...]) at clock t: the payload, or the
\* exception raised (PyJWT 2: the token is parsed, then the header's
\* algorithm is looked up in algorithms, then the signature is verified,
\* then exp is compared with the clock, exp <= now meaning expired)
Decode(token, key, algorithms, t) ==
    IF ~IsJwt(token)
    THEN [ok |-> FALSE, exc |-> "DecodeError"]
    ELSE LET jwt == token[1] IN
         IF jwt.alg \notin algorithms
         THEN [ok |-> FALSE, exc |-> "InvalidAlgorithmError"]
         ELSE IF jwt.sig # Sign(key, jwt.alg, jwt.payload)
         THEN [ok |-> FALSE, exc |-> "InvalidSignatureError"]
         ELSE IF "exp" \in DOMAIN jwt.payload
                 /\ jwt.payload.exp * TicksPerSec <= t
         THEN [ok |-> FALSE, exc |-> "ExpiredSignatureError"]
         ELSE [ok |-> TRUE, payload |-> jwt.payload]

\* dict.get(key)
Get(d, key) == IF key \in DOMAIN d THEN d[key] ELSE NoValue

\* truth value of an Optional[dict]
Truthy(payload) == payload # None /\ DOMAIN payload # {}

---------------------------------------------------------------------------
(* TokenManager: auth.py:28-71 *)

\* t1, t2: the two readings of datetime.utcnow()
create_access_token(user_id, user_email, user_name, t1, t2) ==
    Encode([user_id |-> user_id,
            email |-> user_email,
            name |-> user_name,
            iat |-> Timestamp(t1),
            exp |-> Timestamp(t2 + AccessDelta)],
           JWT_SECRET, JWT_ALGORITHM)

create_refresh_token(user_id, t1, t2) ==
    Encode([user_id |-> user_id,
            type |-> "refresh",
            iat |-> Timestamp(t1),
            exp |-> Timestamp(t2 + RefreshDelta)],
           JWT_SECRET, JWT_ALGORITHM)

\* verify_token that lets the token's header choose the algorithm
verify_token_any_alg(token, t) ==
    LET r == Decode(token, JWT_SECRET, Algorithms, t) IN
    IF r.ok THEN r.payload ELSE None

\* verify_token that reports why it failed instead of returning None
verify_token_reason(token, t) ==
    LET r == Decode(token, JWT_SECRET, {JWT_ALGORITHM}, t) IN
    IF r.ok THEN r.payload ELSE [error |-> r.exc]

\* verify_token that accepts a token only while a session is open
verify_token_session(token, t) ==
    LET r == Decode(token, JWT_SECRET, {JWT_ALGORITHM}, t) IN
    IF r.ok /\ session # NoSession THEN r.payload ELSE None

verify_token(token, t) ==
    LET r == Decode(token, JWT_SECRET, {JWT_ALGORITHM}, t) IN
    IF r.ok THEN r.payload ELSE None

\* verify_refresh_token without the type test
verify_refresh_token_untyped(token, t) ==
    LET r == Decode(token, JWT_SECRET, {JWT_ALGORITHM}, t) IN
    IF r.ok THEN r.payload ELSE None

verify_refresh_token(token, t) ==
    LET payload == verify_token(token, t) IN
    IF Truthy(payload) /\ Get(payload, "type") = "refresh"
    THEN payload
    ELSE None

---------------------------------------------------------------------------
(* Token strings a client can present *)

Word(w) == [word |-> w]
SP == [ch |-> " "]

HeldTokens == { h.token : h \in held }

\* What a client can make of a token it holds without the server's secret
Forgeries(token) ==
    LET jwt == token[1] IN
    { << [jwt EXCEPT !.payload.user_id = u] >> : u \in UserIds \ {jwt.payload.user_id} }
    \cup { << [jwt EXCEPT !.payload.exp = jwt.payload.exp + 1] >>,
           << [jwt EXCEPT !.sig = <<"flipped">>] >>,
           Encode(jwt.payload, OtherSecret, JWT_ALGORITHM),
           Encode(jwt.payload, JWT_SECRET, "HS512"),
           Encode(jwt.payload, JWT_SECRET, "none") }

Garbage == { <<>>, << Word("abc") >> }

TokenStrings == HeldTokens \cup UNION { Forgeries(t) : t \in HeldTokens } \cup Garbage

---------------------------------------------------------------------------
(* State machine: the token manager called directly *)

NoCall == [op |-> "none"]

\* The workers that serve login callbacks side by side, and a worker that
\* serves none
Workers == {"w1", "w2"}
Idle == [pc |-> "idle"]

Init ==
    /\ now = 0
    /\ held = {}
    /\ tasks = <<>>
    /\ nextId = 0
    /\ last = NoCall
    /\ users = <<>>
    /\ nextUser = 0
    /\ session = NoSession
    /\ calls = [w \in Workers |-> Idle]

\* The clock only moves forward
Advance ==
    /\ \E t \in Instants : t > now /\ now' = t
    /\ UNCHANGED <<held, tasks, nextId, last>>
    /\ UNCHANGED accounts

CallCreateAccessToken ==
    \E u \in UserIds, e \in Emails, n \in Names, d \in 0 .. MaxDrift :
        LET h == [op |-> "create_access_token",
                  args |-> <<u, e, n>>,
                  token |-> create_access_token(u, e, n, now, now + d)]
        IN /\ now + d \in Instants
           /\ now' = now + d
           /\ held' = {h}
           /\ last' = h
           /\ UNCHANGED <<tasks, nextId>>
           /\ UNCHANGED accounts

CallCreateRefreshToken ==
    \E u \in UserIds, d \in 0 .. MaxDrift :
        LET h == [op |-> "create_refresh_token",
                  args |-> <<u>>,
                  token |-> create_refresh_token(u, now, now + d)]
        IN /\ now + d \in Instants
           /\ now' = now + d
           /\ held' = {h}
           /\ last' = h
           /\ UNCHANGED <<tasks, nextId>>
           /\ UNCHANGED accounts

CallVerifyToken ==
    \E token \in TokenStrings :
        /\ last' = [op |-> "verify_token", token |-> token, at |-> now,
                    result |-> verify_token(token, now)]
        /\ UNCHANGED <<now, held, tasks, nextId>>
        /\ UNCHANGED accounts

CallVerifyRefreshToken ==
    \E token \in TokenStrings :
        /\ last' = [op |-> "verify_refresh_token", token |-> token, at |-> now,
                    result |-> verify_refresh_token(token, now)]
        /\ UNCHANGED <<now, held, tasks, nextId>>
        /\ UNCHANGED accounts

\* The user table (app.py:47-55, database.py:33-43) as the gates and the
\* task operations see it, which never write it: id -> email, name
Directory ==
    [u \in UserIds |->
        IF u = "u1" THEN [email |-> "a@b.com", name |-> "Ann"]
                    ELSE [email |-> "c@d.com", name |-> "Bob"]]

\* The access token auth_callback and the refresh exchange issue for a stored
\* user (app.py:149, 190; function_app.py:93, 129), which the client keeps
IssueAccessToken ==
    \E u \in UserIds :
        LET h == [op |-> "create_access_token",
                  args |-> <<u, Directory[u].email, Directory[u].name>>,
                  token |-> create_access_token(u, Directory[u].email,
                                                Directory[u].name, now, now)]
        IN /\ held' = {h}
           /\ last' = h
           /\ UNCHANGED <<now, tasks, nextId>>
           /\ UNCHANGED accounts

\* The refresh token auth_callback issues for a stored user (app.py:150;
\* function_app.py:94), which the client keeps
IssueRefreshToken ==
    \E u \in UserIds :
        LET h == [op |-> "create_refresh_token",
                  args |-> <<u>>,
                  token |-> create_refresh_token(u, now, now)]
        IN /\ held' = {h}
           /\ last' = h
           /\ UNCHANGED <<now, tasks, nextId>>
           /\ UNCHANGED accounts

NextToken ==
    \/ Advance
    \/ CallCreateAccessToken
    \/ CallCreateRefreshToken
    \/ CallVerifyToken
    \/ CallVerifyRefreshToken

SpecToken == Init /\ [][NextToken]_vars

---------------------------------------------------------------------------
(* Authorization gates: auth.py:145-193, function_app.py:16-31 *)

\* str.split(" "): the pieces between the spaces, empty ones included
RECURSIVE Split(_)
Split(s) ==
    IF \A i \in 1 .. Len(s) : s[i] # SP
    THEN << s >>
    ELSE LET i == CHOOSE k \in 1 .. Len(s) :
                      s[k] = SP /\ \A j \in 1 .. (k - 1) : s[j] # SP
         IN << SubSeq(s, 1, i - 1) >> \o Split(SubSeq(s, i + 1, Len(s)))

\* request.headers without, and with, an Authorization field
NoHeaders == << >>
WithAuthorization(value) == [Authorization |-> value]

\* request.user before anything assigned it
Unset == [unset |-> TRUE]

\* The 401 response of a gate: the wrapped operation is not run
Reject(message, token) ==
    [status |-> 401, error |-> message, ran |-> FALSE, user |-> Unset,
     token |-> token]

\* The wrapped operation run with request.user = user; token is the string
\* handed to verify_token (NoString when it was not called)
Run(user, token) ==
    [status |-> 200, error |-> NoValue, ran |-> TRUE, user |-> user,
     token |-> token]

\* token_required that runs the operation whatever verify_token returned
token_required_unchecked(headers, t) ==
    IF "Authorization" \in DOMAIN headers /\ Len(Split(headers.Authorization)) < 2
    THEN Reject("Invalid authorization header", NoString)
    ELSE LET token == IF "Authorization" \in DOMAIN headers
                      THEN Split(headers.Authorization)[2]
                      ELSE NoString
         IN IF token = NoString \/ token = << >>
            THEN Reject("Missing authorization token", NoString)
            ELSE Run(verify_token(token, t), token)

\* token_required that accepts the scheme "Bearer" only
token_required_bearer_only(headers, t) ==
    IF "Authorization" \in DOMAIN headers /\ Len(Split(headers.Authorization)) < 2
    THEN Reject("Invalid authorization header", NoString)
    ELSE IF "Authorization" \in DOMAIN headers
            /\ Split(headers.Authorization)[1] # << Word("Bearer") >>
    THEN Reject("Invalid authorization header", NoString)
    ELSE LET token == IF "Authorization" \in DOMAIN headers
                      THEN Split(headers.Authorization)[2]
                      ELSE NoString
         IN IF token = NoString \/ token = << >>
            THEN Reject("Missing authorization token", NoString)
            ELSE LET payload == verify_token(token, t) IN
                 IF ~Truthy(payload)
                 THEN Reject("Invalid or expired token", token)
                 ELSE Run(payload, token)

\* auth.py:145-171
token_required(headers, t) ==
    IF "Authorization" \in DOMAIN headers /\ Len(Split(headers.Authorization)) < 2
    THEN Reject("Invalid authorization header", NoString)
    ELSE LET token == IF "Authorization" \in DOMAIN headers
                      THEN Split(headers.Authorization)[2]
                      ELSE NoString
         IN IF token = NoString \/ token = << >>
            THEN Reject("Missing authorization token", NoString)
            ELSE LET payload == verify_token(token, t) IN
                 IF ~Truthy(payload)
                 THEN Reject("Invalid or expired token", token)
                 ELSE Run(payload, token)

\* function_app.py:16-31, with the caller's "if error: return" (e.g. 296-298)
get_user_from_token(headers, t) ==
    LET auth_header == IF "Authorization" \in DOMAIN headers
                       THEN headers.Authorization
                       ELSE NoString
    IN IF auth_header = NoString \/ auth_header = << >>
       THEN Reject("Missing authorization token", NoString)
       ELSE IF Len(Split(auth_header)) < 2
       THEN Reject("Invalid authorization header", NoString)
       ELSE LET token == Split(auth_header)[2]
                payload == verify_token(token, t)
            IN IF ~Truthy(payload)
               THEN Reject("Invalid or expired token", token)
               ELSE Run(payload, token)

\* optional_token whose last assignment always clears request.user
optional_token_cleared(headers, t) ==
    IF "Authorization" \in DOMAIN headers /\ Len(Split(headers.Authorization)) >= 2
    THEN Run(None, Split(headers.Authorization)[2])
    ELSE Run(None, NoString)

\* auth.py:174-193
optional_token(headers, t) ==
    LET parsed == "Authorization" \in DOMAIN headers
                  /\ Len(Split(headers.Authorization)) >= 2
        token == IF parsed THEN Split(headers.Authorization)[2] ELSE NoString
        payload == IF parsed THEN verify_token(token, t) ELSE None
        \* "if payload: request.user = payload"
        user == IF parsed /\ Truthy(payload) THEN payload ELSE Unset
    IN \* "request.user = getattr(request, 'user', None)"
       Run(IF user = Unset THEN None ELSE user, token)

Schemes == {"Bearer", "Token"}

\* "Authorization: Bearer <token>"
Bearer(token) == WithAuthorization(<< Word("Bearer"), SP >> \o token)

\* The values of the Authorization field that are tried
HeaderValues ==
    { << >>, << Word("Bearer") >>, << SP, SP >> }
    \cup { << Word("Bearer"), SP >> \o token : token \in TokenStrings }
    \cup { << Word(s), SP >> \o token : s \in Schemes, token \in HeldTokens }
    \cup { << Word("Bearer"), SP, SP >> \o token : token \in HeldTokens }
    \cup { << Word("Bearer"), SP >> \o token \o << SP, Word("x") >> :
              token \in HeldTokens }
    \cup HeldTokens

Headers == {NoHeaders} \cup { WithAuthorization(v) : v \in HeaderValues }

Request(op, headers, response) ==
    [op |-> op, headers |-> headers, at |-> now] @@ response

\* A request to an operation wrapped in @token_required
TokenRequired ==
    \E headers \in Headers :
        /\ last' = Request("token_required", headers, token_required(headers, now))
        /\ UNCHANGED <<now, held, tasks, nextId>>
        /\ UNCHANGED accounts

\* A request to a function that starts with get_user_from_token
GetUserFromToken ==
    \E headers \in Headers :
        /\ last' = Request("get_user_from_token", headers,
                           get_user_from_token(headers, now))
        /\ UNCHANGED <<now, held, tasks, nextId>>
        /\ UNCHANGED accounts

\* A request to an operation wrapped in @optional_token
OptionalToken ==
    \E headers \in Headers :
        /\ last' = Request("optional_token", headers, optional_token(headers, now))
        /\ UNCHANGED <<now, held, tasks, nextId>>
        /\ UNCHANGED accounts

NextGate ==
    \/ Advance
    \/ IssueAccessToken
    \/ IssueRefreshToken
    \/ TokenRequired
    \/ GetUserFromToken
    \/ OptionalToken

SpecGate == Init /\ [][NextGate]_vars

---------------------------------------------------------------------------
(* Task operations: app.py:221-362, function_app.py:139-331 *)
(* A row keeps user_id, title, status, priority and completed_at; the        *)
(* columns no operation branches on (description, due_date, created_at,      *)
(* updated_at) are left out. An absent datetime is << >>, a set one << t >>. *)

Deployments == {"server", "serverless"}

\* @token_required (app.py) or get_user_from_token (function_app.py)
Gate(dep, headers, t) ==
    IF dep = "server" THEN token_required(headers, t)
                      ELSE get_user_from_token(headers, t)

NoTime == << >>
Statuses == {"pending", "in_progress", "completed"}

\* Task(user_id=..., title=..., priority=...) with the column defaults
NewTask(user_id, title, priority) ==
    [user_id |-> user_id, title |-> title, status |-> "pending",
     priority |-> priority, completed_at |-> NoTime]

\* The query that looks a task up by id alone
FindAny(task_id, user_id) ==
    IF task_id \in DOMAIN tasks THEN {task_id} ELSE {}

\* Task.query.filter_by(id=task_id, user_id=user_id): the matching rows
Find(task_id, user_id) ==
    IF task_id \in DOMAIN tasks /\ tasks[task_id].user_id = user_id
    THEN {task_id}
    ELSE {}

\* Task.query.filter_by(user_id=user_id)
TasksOf(user_id) == { id \in DOMAIN tasks : tasks[id].user_id = user_id }

\* The record of a task request: the gate's outcome g, overridden by the
\* operation's own status and error once it ran. The record does not say
\* which deployment served the request, and keeps no body for a 404, the
\* one answer whose wording differs ('Not found' / 'Task not found').
TaskRequest(op, g, status, error, task_id, returned) ==
    [op |-> op, at |-> now, token |-> g.token, ran |-> g.ran,
     user |-> g.user,
     status |-> IF g.ran THEN status ELSE g.status,
     error |-> IF g.ran THEN error ELSE g.error,
     task_id |-> task_id, returned |-> returned]

\* The credentials tried on the task routes
TaskHeaders ==
    {NoHeaders}
    \cup { Bearer(t) : t \in HeldTokens }
    \cup { Bearer(<< [t[1] EXCEPT !.payload.user_id = u] >>) :
              t \in HeldTokens, u \in UserIds }

TaskIds == 1 .. MaxTasks
Titles == {"a"}

\* The outcomes of the gate of either deployment for a request, and of the
\* operation op behind it when the gate refuses the request
GateOutcomes(headers) == { Gate(dep, headers, now) : dep \in Deployments }

Refused(op, g) ==
    /\ ~g.ran
    /\ last' = TaskRequest(op, g, 0, NoValue, 0, {})
    /\ UNCHANGED <<now, held, tasks, nextId>>
    /\ UNCHANGED accounts

\* GET /api/tasks: app.py:221-237, function_app.py:148-162
get_tasks ==
    \E headers \in TaskHeaders : \E g \in GateOutcomes(headers) :
        \/ Refused("get_tasks", g)
        \/ /\ g.ran
           /\ \E status \in {NoValue, "completed"},
                 priority \in {NoValue, "high"} :
                LET rows == { id \in TasksOf(g.user.user_id) :
                                /\ status # NoValue => tasks[id].status = status
                                /\ priority # NoValue
                                      => tasks[id].priority = priority }
                IN last' = TaskRequest("get_tasks", g, 200, NoValue, 0, rows)
           /\ UNCHANGED <<now, held, tasks, nextId>>
           /\ UNCHANGED accounts

\* GET /api/tasks/<task_id>: app.py:240-246, function_app.py:194-209
get_task ==
    \E headers \in TaskHeaders : \E g \in GateOutcomes(headers) :
        \/ Refused("get_task", g)
        \/ /\ g.ran
           /\ \E task_id \in TaskIds :
                LET found == Find(task_id, g.user.user_id) IN
                last' = IF found = {}
                        THEN TaskRequest("get_task", g, 404, NoValue,
                                         task_id, {})
                        ELSE TaskRequest("get_task", g, 200, NoValue,
                                         task_id, found)
           /\ UNCHANGED <<now, held, tasks, nextId>>
           /\ UNCHANGED accounts

\* POST /api/tasks: app.py:249-270, function_app.py:164-188
create_task ==
    \E headers \in TaskHeaders : \E g \in GateOutcomes(headers) :
        \/ Refused("create_task", g)
        \/ /\ g.ran
           /\ last' = TaskRequest("create_task", g, 400, "Title is required",
                                  0, {})
           /\ UNCHANGED <<now, held, tasks, nextId>>
           /\ UNCHANGED accounts
        \/ /\ g.ran
           /\ nextId < MaxTasks
           /\ \E title \in Titles, priority \in {NoValue, "high"} :
                tasks' = tasks @@ (nextId + 1 :>
                    NewTask(g.user.user_id, title,
                            IF priority = NoValue THEN "medium" ELSE priority))
           /\ nextId' = nextId + 1
           /\ last' = TaskRequest("create_task", g, 201, NoValue,
                                  nextId + 1, {nextId + 1})
           /\ UNCHANGED <<now, held>>
           /\ UNCHANGED accounts

\* The request bodies tried on PUT: the keys present and their values
UpdateBodies ==
    { [title |-> "b", priority |-> "high"] }
    \cup { [status |-> st] : st \in {"pending", "completed", "bogus"} }

\* The row after the assignments of update_task (app.py:281-292,
\* function_app.py:215-226)
Updated(row, data, t) ==
    [row EXCEPT
       !.title = IF "title" \in DOMAIN data THEN data.title ELSE @,
       !.status = IF "status" \in DOMAIN data THEN data.status ELSE @,
       !.completed_at =
           IF "status" \in DOMAIN data /\ data.status = "completed" /\ @ = NoTime
           THEN << t >> ELSE @,
       !.priority = IF "priority" \in DOMAIN data THEN data.priority ELSE @]

\* PUT /api/tasks/<task_id>: app.py:273-297, function_app.py:211-237
update_task ==
    \E headers \in TaskHeaders : \E g \in GateOutcomes(headers) :
        \/ Refused("update_task", g)
        \/ /\ g.ran
           /\ \E task_id \in TaskIds, data \in UpdateBodies :
                LET found == Find(task_id, g.user.user_id) IN
                IF found = {}
                THEN /\ last' = TaskRequest("update_task", g, 404, NoValue,
                                            task_id, {})
                     /\ UNCHANGED tasks
                ELSE /\ tasks' = [tasks EXCEPT ![task_id] = Updated(@, data, now)]
                     /\ last' = TaskRequest("update_task", g, 200, NoValue,
                                            task_id, found)
           /\ UNCHANGED <<now, held, nextId>>
           /\ UNCHANGED accounts

\* DELETE /api/tasks/<task_id>: app.py:300-310, function_app.py:239-247
delete_task ==
    \E headers \in TaskHeaders : \E g \in GateOutcomes(headers) :
        \/ Refused("delete_task", g)
        \/ /\ g.ran
           /\ \E task_id \in TaskIds :
                LET found == Find(task_id, g.user.user_id) IN
                IF found = {}
                THEN /\ last' = TaskRequest("delete_task", g, 404, NoValue,
                                            task_id, {})
                     /\ UNCHANGED tasks
                ELSE /\ tasks' = [id \in DOMAIN tasks \ {task_id} |-> tasks[id]]
                     /\ last' = TaskRequest("delete_task", g, 204, NoValue,
                                            task_id, {})
           /\ UNCHANGED <<now, held, nextId>>
           /\ UNCHANGED accounts

\* The row after the assignments of update_task_status (app.py:325-329,
\* function_app.py:273-277)
StatusSet(row, new_status, t) ==
    [row EXCEPT
       !.status = new_status,
       !.completed_at =
           IF new_status = "completed"
           THEN (IF @ = NoTime THEN << t >> ELSE @)
           ELSE NoTime]

\* PATCH /api/tasks/<task_id>/status: app.py:313-334, function_app.py:250-288
update_task_status ==
    \E headers \in TaskHeaders : \E g \in GateOutcomes(headers) :
        \/ Refused("update_task_status", g)
        \/ /\ g.ran
           /\ \E task_id \in TaskIds, new_status \in Statuses \cup {"bogus", NoValue} :
                LET found == Find(task_id, g.user.user_id) IN
                IF found = {}
                THEN /\ last' = TaskRequest("update_task_status", g, 404,
                                            NoValue, task_id, {})
                     /\ UNCHANGED tasks
                ELSE IF new_status \notin Statuses
                THEN /\ last' = TaskRequest("update_task_status", g, 400,
                                            "Invalid status", task_id, {})
                     /\ UNCHANGED tasks
                ELSE /\ tasks' = [tasks EXCEPT ![task_id] =
                                     StatusSet(@, new_status, now)]
                     /\ last' = TaskRequest("update_task_status", g, 200,
                                            NoValue, task_id, found)
           /\ UNCHANGED <<now, held, nextId>>
           /\ UNCHANGED accounts

\* GET /api/stats: app.py:347-362, function_app.py:312-331
get_stats ==
    \E headers \in TaskHeaders : \E g \in GateOutcomes(headers) :
        \/ Refused("get_stats", g)
        \/ /\ g.ran
           /\ LET rows == TasksOf(g.user.user_id)
                  stats ==
                    [total_tasks |-> Cardinality(rows),
                     completed_tasks |-> Cardinality(
                         { id \in rows : tasks[id].status = "completed" }),
                     pending_tasks |-> Cardinality(
                         { id \in rows : tasks[id].status = "pending" }),
                     in_progress_tasks |-> Cardinality(
                         { id \in rows : tasks[id].status = "in_progress" }),
                     high_priority_tasks |-> Cardinality(
                         { id \in rows : tasks[id].priority = "high" })]
              IN last' = [stats |-> stats] @@
                         TaskRequest("get_stats", g, 200, NoValue, 0, rows)
           /\ UNCHANGED <<now, held, tasks, nextId>>
           /\ UNCHANGED accounts

NextTasks ==
    \/ IssueAccessToken
    \/ get_tasks
    \/ get_task
    \/ create_task
    \/ update_task
    \/ delete_task
    \/ update_task_status
    \/ get_stats

SpecTasks == Init /\ [][NextTasks]_vars

---------------------------------------------------------------------------
(* Login callback, logout and refresh exchange: app.py:112-191,             *)
(* function_app.py:59-134. A user row keeps azure_id, email, name and        *)
(* last_login; created_at, which no operation reads, is left out.            *)

\* The provider's subject ids, and the profiles azure_auth.get_user_info
\* returns for them (auth.py:121-138): a subject's email can change, and two
\* subjects can come with the same email
Subjects == {"s1", "s2"}
Profiles ==
    { [id |-> "s1", email |-> "a@b.com", name |-> "Ann"],
      [id |-> "s1", email |-> "c@d.com", name |-> "Ann"],
      [id |-> "s2", email |-> "c@d.com", name |-> "Bob"] }

\* The uuid4 values User.id draws, in the order they are drawn
UserIdSeq == << "u1", "u2" >>

\* User.query.filter_by(azure_id=...): the ids of the matching rows
ByAzureId(azure_id) == { u \in DOMAIN users : users[u].azure_id = azure_id }

\* A uuid is left for the row the commit would insert
IdLeft(found, user_info) ==
    ( /\ found = {}
      /\ \A v \in DOMAIN users : /\ users[v].azure_id # user_info.id
                                  /\ users[v].email # user_info.email )
    => nextUser < Len(UserIdSeq)

\* A commit on a table that does not enforce the unique columns
commit_unchecked(found, user_info, t) ==
    IF found = {}
    THEN LET u == UserIdSeq[nextUser + 1] IN
         [ok |-> TRUE, id |-> u,
          users |-> users @@ (u :> [azure_id |-> user_info.id,
                                    email |-> user_info.email,
                                    name |-> user_info.name,
                                    last_login |-> t])]
    ELSE LET u == CHOOSE v \in found : TRUE IN
         IF u \notin DOMAIN users
         THEN [ok |-> FALSE, exc |-> "StaleDataError"]
         ELSE [ok |-> TRUE, id |-> u,
               users |-> [users EXCEPT ![u].last_login = t]]

\* "if not user: user = User(...); add(user)", "user.last_login = utcnow()"
\* and commit(), for the rows the lookup found: the INSERT of a new row fails
\* when azure_id or email is already stored (unique=True), the UPDATE of the
\* row found fails when the row is gone
commit(found, user_info, t) ==
    IF found = {}
    THEN IF \E v \in DOMAIN users : \/ users[v].azure_id = user_info.id
                                    \/ users[v].email = user_info.email
         THEN [ok |-> FALSE, exc |-> "IntegrityError"]
         ELSE LET u == UserIdSeq[nextUser + 1] IN
              [ok |-> TRUE, id |-> u,
               users |-> users @@ (u :> [azure_id |-> user_info.id,
                                         email |-> user_info.email,
                                         name |-> user_info.name,
                                         last_login |-> t])]
    ELSE LET u == CHOOSE v \in found : TRUE IN
         IF u \notin DOMAIN users
         THEN [ok |-> FALSE, exc |-> "StaleDataError"]
         ELSE [ok |-> TRUE, id |-> u,
               users |-> [users EXCEPT ![u].last_login = t]]

\* The two tokens auth_callback creates for the row user with id u
Tokens(u, user, t) ==
    [access_token |-> create_access_token(u, user.email, user.name, t, t),
     refresh_token |-> create_refresh_token(u, t, t)]

\* The same tokens as the client keeps them
Kept(u, user, tokens) ==
    { [op |-> "create_access_token", args |-> <<u, user.email, user.name>>,
       token |-> tokens.access_token],
      [op |-> "create_refresh_token", args |-> <<u>>,
       token |-> tokens.refresh_token] }

\* The record of a login callback: what it was given, what its lookup found,
\* and its answer (the server deployment redirects, the serverless one
\* returns the tokens in the body)
Callback(dep, user_info, found, status, error, user_id, tokens) ==
    [op |-> "auth_callback", at |-> now, dep |-> dep, user_info |-> user_info,
     found |-> found, status |-> status, error |-> error, user_id |-> user_id,
     access_token |-> tokens.access_token,
     refresh_token |-> tokens.refresh_token]

NoTokens == [access_token |-> NoString, refresh_token |-> NoString]
NoProfile == [id |-> NoValue, email |-> NoValue, name |-> NoValue]

\* session[...] = ... (app.py:153-157); the serverless deployment has none
Session(dep, u, user, tokens) ==
    IF dep = "server"
    THEN [access_token |-> tokens.access_token,
          refresh_token |-> tokens.refresh_token,
          user_id |-> u, user_email |-> user.email, user_name |-> user.name]
    ELSE session

\* GET /auth/callback served in one piece: app.py:112-163,
\* function_app.py:59-106
auth_callback ==
    /\ \E dep \in Deployments :
          \/ \* an error parameter, no code, no provider token or no profile
             /\ last' = Callback(dep, NoProfile, {}, 400, "error", NoValue,
                                 NoTokens)
             /\ UNCHANGED <<held, users, nextUser, session>>
          \/ \E user_info \in Profiles :
               LET found == ByAzureId(user_info.id) IN
               /\ IdLeft(found, user_info)
               /\ \E c \in {commit(found, user_info, now)} :
                    IF c.ok
                    THEN LET tokens == Tokens(c.id, c.users[c.id], now) IN
                         /\ users' = c.users
                         /\ nextUser' = IF found = {} THEN nextUser + 1
                                                      ELSE nextUser
                         /\ held' = Kept(c.id, c.users[c.id], tokens)
                         /\ session' = Session(dep, c.id, c.users[c.id], tokens)
                         /\ last' = Callback(dep, user_info, found,
                                             IF dep = "server" THEN 302 ELSE 200,
                                             NoValue, c.id, tokens)
                    ELSE /\ last' = Callback(dep, user_info, found, 500, c.exc,
                                             NoValue, NoTokens)
                         /\ UNCHANGED <<held, users, nextUser, session>>
    /\ UNCHANGED <<now, tasks, nextId, calls>>

\* GET /auth/logout: app.py:166-170
logout ==
    /\ session' = NoSession
    /\ last' = [op |-> "logout", at |-> now, status |-> 302]
    /\ UNCHANGED <<now, held, tasks, nextId, users, nextUser, calls>>

\* The refresh exchange that takes any token verify_token accepts
refresh_access_token_any_token(refresh_token, t) ==
    IF refresh_token = NoString \/ refresh_token = << >>
    THEN [status |-> 400, error |-> "Missing refresh token",
          access_token |-> NoString]
    ELSE LET payload == verify_token(refresh_token, t) IN
         IF ~Truthy(payload)
         THEN [status |-> 401, error |-> "Invalid refresh token",
               access_token |-> NoString]
         ELSE IF payload.user_id \notin DOMAIN users
         THEN [status |-> 404, error |-> "User not found",
               access_token |-> NoString]
         ELSE LET user == users[payload.user_id] IN
              [status |-> 200, error |-> NoValue,
               access_token |-> create_access_token(payload.user_id, user.email,
                                                    user.name, t, t)]

\* The answer of POST /auth/refresh to the body's refresh_token (NoString
\* when the body has none): app.py:173-191, function_app.py:109-134
refresh_access_token(refresh_token, t) ==
    IF refresh_token = NoString \/ refresh_token = << >>
    THEN [status |-> 400, error |-> "Missing refresh token",
          access_token |-> NoString]
    ELSE LET payload == verify_refresh_token(refresh_token, t) IN
         IF ~Truthy(payload)
         THEN [status |-> 401, error |-> "Invalid refresh token",
               access_token |-> NoString]
         ELSE IF payload.user_id \notin DOMAIN users
         THEN [status |-> 404, error |-> "User not found",
               access_token |-> NoString]
         ELSE LET user == users[payload.user_id] IN
              [status |-> 200, error |-> NoValue,
               access_token |-> create_access_token(payload.user_id, user.email,
                                                    user.name, t, t)]

\* The refresh_token values tried
RefreshInputs == {NoString} \cup TokenStrings

\* POST /auth/refresh; the client keeps the new access token beside its
\* refresh token
refresh_token ==
    /\ \E token \in RefreshInputs :
         \E r \in {refresh_access_token(token, now)} :
            /\ last' = [op |-> "refresh", at |-> now, token |-> token] @@ r
            /\ held' = IF r.status = 200
                       THEN LET payload == r.access_token[1].payload IN
                            { [op |-> "create_access_token",
                               args |-> <<payload.user_id, payload.email,
                                          payload.name>>,
                               token |-> r.access_token] }
                            \cup { h \in held : h.op = "create_refresh_token" }
                       ELSE held
    /\ UNCHANGED <<now, tasks, nextId, users, nextUser, session, calls>>

\* A row of the user table is deleted, its tasks with it (cascade,
\* app.py:55): what the "User not found" answer of the refresh exchange is for
RemoveUser ==
    /\ \E u \in DOMAIN users :
          /\ users' = [v \in DOMAIN users \ {u} |-> users[v]]
          /\ tasks' = [id \in { i \in DOMAIN tasks : tasks[i].user_id # u }
                          |-> tasks[id]]
          /\ last' = [op |-> "remove_user", at |-> now, user_id |-> u]
    /\ UNCHANGED <<now, held, nextId, nextUser, session, calls>>

\* The clock as the login flows sample it: the start, the expiry of an
\* access token issued at the start, and the expiry of a refresh token
LoginInstants == {0, AccessDelta, RefreshDelta}

Pass ==
    /\ \E t \in LoginInstants : t > now /\ now' = t
    /\ UNCHANGED <<held, tasks, nextId, last, users, nextUser, session, calls>>

\* verify_token called on a token the client keeps
VerifyKept ==
    /\ \E token \in HeldTokens :
          last' = [op |-> "verify_token", token |-> token, at |-> now,
                   result |-> verify_token(token, now)]
    /\ UNCHANGED <<now, held, tasks, nextId, users, nextUser, session, calls>>

NextLogin ==
    \/ Pass
    \/ auth_callback
    \/ logout
    \/ refresh_token
    \/ RemoveUser
    \/ VerifyKept

SpecLogin == Init /\ [][NextLogin]_vars

---------------------------------------------------------------------------
(* Login callbacks served side by side: the lookup, the commit and the      *)
(* answer of auth_callback (app.py:135-150, function_app.py:80-94) as        *)
(* separate steps of a worker. What a worker does between two of them is     *)
(* local to it: the new User object and last_login are staged in its own     *)
(* session and reach the table at commit().                                  *)

\* The deployment a worker belongs to: both run the same lookup and commit
\* against the one user table
DeploymentOf(w) == IF w = "w1" THEN "server" ELSE "serverless"

\* user = User.query.filter_by(azure_id=user_info["id"]).first()
CallbackLookup(w) ==
    /\ calls[w].pc = "idle"
    /\ \E user_info \in Profiles :
          calls' = [calls EXCEPT ![w] =
                       [pc |-> "found", dep |-> DeploymentOf(w),
                        user_info |-> user_info,
                        found |-> ByAzureId(user_info.id)]]
    /\ UNCHANGED <<now, held, tasks, nextId, last, users, nextUser, session>>

\* db.session.commit(), and the except branch when it raises
CallbackCommit(w) ==
    /\ calls[w].pc = "found"
    /\ IdLeft(calls[w].found, calls[w].user_info)
    /\ \E c \in {commit(calls[w].found, calls[w].user_info, now)} :
          IF c.ok
          THEN /\ users' = c.users
               /\ nextUser' = IF calls[w].found = {} THEN nextUser + 1
                                                     ELSE nextUser
               /\ calls' = [calls EXCEPT ![w] =
                               [pc |-> "committed", dep |-> calls[w].dep,
                                user_info |-> calls[w].user_info,
                                found |-> calls[w].found, id |-> c.id]]
               /\ UNCHANGED <<held, last, session>>
          ELSE /\ last' = Callback(calls[w].dep, calls[w].user_info,
                                   calls[w].found, 500, c.exc, NoValue, NoTokens)
               /\ calls' = [calls EXCEPT ![w] = Idle]
               /\ UNCHANGED <<held, users, nextUser, session>>
    /\ UNCHANGED <<now, tasks, nextId>>

\* The tokens are created from the committed row and returned
CallbackRespond(w) ==
    /\ calls[w].pc = "committed"
    /\ LET u == calls[w].id
           tokens == Tokens(u, users[u], now)
       IN /\ held' = Kept(u, users[u], tokens)
          /\ session' = Session(calls[w].dep, u, users[u], tokens)
          /\ last' = Callback(calls[w].dep, calls[w].user_info, calls[w].found,
                              IF calls[w].dep = "server" THEN 302 ELSE 200,
                              NoValue, u, tokens)
    /\ calls' = [calls EXCEPT ![w] = Idle]
    /\ UNCHANGED <<now, tasks, nextId, users, nextUser>>

NextRace ==
    \/ Pass
    \/ \E w \in Workers : CallbackLookup(w)
    \/ \E w \in Workers : CallbackCommit(w)
    \/ \E w \in Workers : CallbackRespond(w)

SpecRace == Init /\ [][NextRace]_vars

---------------------------------------------------------------------------
(* Properties of the token manager *)

\* The instant, in ticks, at which a serialized token expires
ExpiresAt(token) == token[1].payload.exp * TicksPerSec

AllForgeries == UNION { Forgeries(t) : t \in HeldTokens }

\* C1: verifying a freshly issued access token before its expiry returns
\* claims whose user_id, email and name are the inputs and whose token type
\* is 'access'.
C1_AccessRoundTrip ==
    \A h \in held :
        ( /\ last.op = "verify_token"
          /\ h.op = "create_access_token"
          /\ last.token = h.token
          /\ last.at < ExpiresAt(h.token) )
        => /\ last.result # None
           /\ last.result.user_id = h.args[1]
           /\ last.result.email = h.args[2]
           /\ last.result.name = h.args[3]
           /\ Get(last.result, "type") = "access"

\* C3: verify_refresh_token accepts an unexpired token issued by
\* create_refresh_token, returning the user_id it was issued for, and rejects
\* every token issued by create_access_token.
C3_RefreshTypeChecked ==
    \A h \in held :
        (last.op = "verify_refresh_token" /\ last.token = h.token)
        => /\ (h.op = "create_refresh_token" /\ last.at < ExpiresAt(h.token))
              => (last.result # None /\ last.result.user_id = h.args[1])
           /\ h.op = "create_access_token" => last.result = None

\* An unexpired access token was replayed as a refresh token and rejected
C3_Witness ==
    \E h \in held :
        /\ last.op = "verify_refresh_token"
        /\ h.op = "create_access_token"
        /\ last.token = h.token
        /\ last.at < ExpiresAt(h.token)
        /\ last.result = None

C4_ExpiredNow ==
    ( /\ last.op = "verify_token"
      /\ IsJwt(last.token)
      /\ last.at >= ExpiresAt(last.token) )
    => last.result = None

C4_StaysExpired ==
    \A token \in HeldTokens :
        token \in { h.token : h \in held' } =>
            (verify_token(token, now) = None => verify_token(token, now') = None)

\* C4: verify_token returns invalid whenever the clock is at or past the
\* token's expires_at, whatever the signature; and since the clock only
\* advances, a token rejected once is rejected at every later instant.
C4_ExpiryEnforced == []C4_ExpiredNow /\ [][C4_StaysExpired]_vars

\* A correctly signed token was verified at the very instant it expires
C4_Witness ==
    /\ last.op = "verify_token"
    /\ last.token \in HeldTokens
    /\ last.at = ExpiresAt(last.token)
    /\ last.result = None

\* C10: verify_token returns claims only for a token signed with the
\* configured secret over exactly its claims with the one fixed algorithm:
\* tampered claims, a tampered signature, another secret and another
\* algorithm are all rejected, expired or not.
C10_OnlyOwnSignature ==
    last.op = "verify_token" =>
        /\ last.result # None =>
              /\ IsJwt(last.token)
              /\ last.token[1].alg = JWT_ALGORITHM
              /\ last.token[1].sig =
                     Sign(JWT_SECRET, JWT_ALGORITHM, last.token[1].payload)
        /\ last.token \in AllForgeries => last.result = None

\* An unexpired token signed with the server's secret under another
\* algorithm was rejected
C10_Witness ==
    \E token \in HeldTokens :
        /\ last.op = "verify_token"
        /\ last.token = Encode(token[1].payload, JWT_SECRET, "HS512")
        /\ last.at < ExpiresAt(token)
        /\ last.result = None

\* C12: every token create_access_token issues has exp - iat at most the
\* access window of JWT_EXPIRATION_HOURS hours, also when the clock advances
\* between the two readings of utcnow(); every token create_refresh_token
\* issues has exp = iat + the refresh window of 30 days.
C12_Lifetimes ==
    \A h \in held :
        LET payload == h.token[1].payload IN
        /\ h.op = "create_access_token"
              => payload.exp - payload.iat <= JWT_EXPIRATION_HOURS * 3600
        /\ h.op = "create_refresh_token"
              => payload.exp = payload.iat + REFRESH_EXPIRATION_DAYS * 86400


---------------------------------------------------------------------------
(* Properties of the gates *)

RequiredGates == {"token_required", "get_user_from_token"}

\* The string after the first space of the Authorization field, if any
Presented(headers) ==
    IF "Authorization" \in DOMAIN headers
       /\ Len(Split(headers.Authorization)) >= 2
    THEN Split(headers.Authorization)[2]
    ELSE NoString

\* C2: an unexpired, correctly signed refresh token presented as the bearer
\* credential is rejected by the required-mode gates: the wrapped operation
\* is not run.
C2_RefreshRejectedByGate ==
    \A h \in held :
        ( /\ last.op \in RequiredGates
          /\ h.op = "create_refresh_token"
          /\ last.headers = Bearer(h.token)
          /\ last.at < ExpiresAt(h.token) )
        => (~last.ran /\ last.status = 401)

\* C5: through a required-mode gate the operation runs only after
\* verify_token returned claims for the presented token, with request.user
\* exactly those claims (so user_id is the one the token was issued for); if
\* verify_token returns invalid the request fails with 'Invalid or expired
\* token' and the operation does not run.
C5_GateIdentity ==
    last.op \in RequiredGates =>
        /\ last.token \in {NoString, Presented(last.headers)}
        /\ last.ran =>
              /\ last.token # NoString
              /\ verify_token(last.token, last.at) # None
              /\ last.user = verify_token(last.token, last.at)
        /\ (last.token # NoString /\ verify_token(last.token, last.at) = None)
              => /\ ~last.ran
                 /\ last.status = 401
                 /\ last.error = "Invalid or expired token"
        /\ \A h \in held :
              (last.ran /\ last.token = h.token)
                  => last.user.user_id = h.args[1]

\* The operation ran for the holder of an access token
C5_Witness ==
    \E h \in held :
        /\ last.op \in RequiredGates
        /\ h.op = "create_access_token"
        /\ last.headers = Bearer(h.token)
        /\ last.ran
        /\ last.user.user_id = h.args[1]

\* C6: through token_required an absent Authorization header gives 'Missing
\* authorization token'; a header that is present but holds no scheme/token
\* pair (no space, or nothing after the space) gives 'Invalid authorization
\* header', never the missing-credential outcome; the operation is not run.
C6_MissingOrMalformed ==
    last.op = "token_required" =>
        /\ "Authorization" \notin DOMAIN last.headers
              => (~last.ran /\ last.error = "Missing authorization token")
        /\ ( /\ "Authorization" \in DOMAIN last.headers
             /\ \/ Len(Split(last.headers.Authorization)) < 2
                \/ Split(last.headers.Authorization)[2] = << >> )
              => (~last.ran /\ last.error = "Invalid authorization header")

\* C7: in optional mode the operation runs for every request; request.user
\* is the claims verify_token produced when it succeeded and None otherwise.
C7_OptionalIdentity ==
    last.op = "optional_token" =>
        /\ last.ran
        /\ last.user =
              IF Presented(last.headers) # NoString
                 /\ Truthy(verify_token(Presented(last.headers), last.at))
              THEN verify_token(Presented(last.headers), last.at)
              ELSE None

\* An optional-mode operation ran with the identity of a valid token
C7_Witness ==
    \E h \in held :
        /\ last.op = "optional_token"
        /\ last.headers = Bearer(h.token)
        /\ last.ran
        /\ last.user # None
        /\ last.user.user_id = h.args[1]

\* Why jwt.decode refuses a token at instant t ("" when it does not)
Failure(token, t) ==
    LET r == Decode(token, JWT_SECRET, {JWT_ALGORITHM}, t) IN
    IF r.ok THEN "" ELSE r.exc

Outcome(response) == << response.status, response.error, response.ran >>

\* C9: whatever makes a token fail verification (malformed string, wrong
\* algorithm, bad signature, expiry), verify_token returns the same value and
\* each required-mode gate answers with the same status and the same body,
\* 'Invalid or expired token': every failing token is treated as the
\* malformed string "abc" is.
C9_UniformFailure ==
    LET malformed == << Word("abc") >> IN
    /\ \A t \in TokenStrings :
          Failure(t, now) # ""
              => verify_token(t, now) = verify_token(malformed, now)
    /\ \A t \in TokenStrings \ { << >> } :
          Failure(t, now) # ""
              => /\ Outcome(token_required(Bearer(t), now))
                      = Outcome(token_required(Bearer(malformed), now))
                 /\ Outcome(get_user_from_token(Bearer(t), now))
                      = Outcome(get_user_from_token(Bearer(malformed), now))
    /\ ( /\ last.op \in RequiredGates
         /\ last.token # NoString
         /\ Failure(last.token, last.at) # "" )
          => Outcome(last) = << 401, "Invalid or expired token", FALSE >>

\* A gate refused an expired token of the client while a token with a bad
\* signature is also at hand
C9_Witness ==
    /\ last.op \in RequiredGates
    /\ last.token \in HeldTokens
    /\ Failure(last.token, last.at) = "ExpiredSignatureError"
    /\ last.error = "Invalid or expired token"
    /\ \E t \in TokenStrings : Failure(t, last.at) = "InvalidSignatureError"

\* The scheme strings compared: none at all, "Bearer" and "Token"
SchemeStrings == { << >> } \cup { << Word(s) >> : s \in Schemes }

Scheme(s, token) == WithAuthorization(s \o << SP >> \o token)

\* C15: the gates do not look at the scheme: for every token string and every
\* scheme string without spaces the outcome of 'scheme token' is that of
\* 'Bearer token', the token being what follows the first space and what
\* verify_token is given; the scheme and the token must be separated by one
\* space, since with none the header is refused as malformed and with two the
\* token is the empty string.
C15_SchemeIgnored ==
    /\ \A t \in TokenStrings : \A s \in SchemeStrings :
          /\ token_required(Scheme(s, t), now) = token_required(Bearer(t), now)
          /\ get_user_from_token(Scheme(s, t), now)
                = get_user_from_token(Bearer(t), now)
    /\ \A t \in HeldTokens : \A s \in Schemes :
          /\ ~token_required(WithAuthorization(<< Word(s) >> \o t), now).ran
          /\ ~get_user_from_token(WithAuthorization(<< Word(s) >> \o t), now).ran
          /\ ~token_required(Scheme(<< Word(s), SP >>, t), now).ran
          /\ ~get_user_from_token(Scheme(<< Word(s), SP >>, t), now).ran
    /\ ( /\ last.op \in RequiredGates
         /\ Presented(last.headers) # NoString )
          => LET g == IF last.op = "token_required"
                      THEN token_required(Bearer(Presented(last.headers)), last.at)
                      ELSE get_user_from_token(Bearer(Presented(last.headers)),
                                               last.at)
             IN /\ Outcome(last) = Outcome(g)
                /\ last.user = g.user
                /\ last.token = g.token

\* A gate ran the operation for an unexpired access token sent under the
\* scheme "Token"
C15_Witness ==
    \E h \in held :
        /\ last.op \in RequiredGates
        /\ h.op = "create_access_token"
        /\ last.headers = Scheme(<< Word("Token") >>, h.token)
        /\ last.ran
        /\ last.token = h.token
        /\ last.user.user_id = h.args[1]

\* C18: token_required and get_user_from_token give every Authorization
\* header (absent, empty, scheme only, empty token, several spaces, valid or
\* invalid token) the same outcome: the same status and message, or the same
\* claims handed to the operation.
C18_SameGate ==
    last.op \in RequiredGates =>
        LET other == IF last.op = "token_required"
                     THEN get_user_from_token(last.headers, last.at)
                     ELSE token_required(last.headers, last.at)
        IN /\ Outcome(last) = Outcome(other)
           /\ last.user = other.user

---------------------------------------------------------------------------
(* Properties of the task operations *)

TaskOps == {"get_tasks", "get_task", "create_task", "update_task",
            "delete_task", "update_task_status", "get_stats"}
ByIdOps == {"get_task", "update_task", "delete_task", "update_task_status"}

\* The request just handled ran its operation under a verified identity
Authenticated(req) ==
    /\ req.op \in TaskOps
    /\ req.ran
    /\ req.token # NoString
    /\ req.user = verify_token(req.token, req.at)
    /\ req.user # None

\* What a task response shows belongs to the requester
C8_ReturnsOwn ==
    last.op \in TaskOps =>
        /\ last.returned # {} => Authenticated(last)
        /\ \A id \in last.returned :
              id \in DOMAIN tasks /\ tasks[id].user_id = last.user.user_id

\* What a task request changes belongs to the requester
C8_ChangesOwn ==
    /\ \A id \in DOMAIN tasks :
          (id \notin DOMAIN tasks' \/ tasks'[id] # tasks[id])
              => /\ Authenticated(last')
                 /\ last'.user.user_id = tasks[id].user_id
                 /\ last'.task_id = id
    /\ \A id \in DOMAIN tasks \cap DOMAIN tasks' :
          tasks'[id].user_id = tasks[id].user_id
    /\ \A id \in DOMAIN tasks' \ DOMAIN tasks :
          Authenticated(last') /\ tasks'[id].user_id = last'.user.user_id
    /\ ( /\ last'.op \in ByIdOps
         /\ last'.ran
         /\ last'.task_id \in DOMAIN tasks
         /\ tasks[last'.task_id].user_id # last'.user.user_id )
          => (last'.status = 404 /\ tasks' = tasks)

\* C8: a task is returned, modified or deleted only by a request whose
\* verified identity.user_id is the task's user_id; a request naming another
\* user's task gets 404 and changes nothing; a created task belongs to the
\* requester and a task's user_id never changes.
C8_TenantIsolation == []C8_ReturnsOwn /\ [][C8_ChangesOwn]_vars

\* A user asked to change or delete another user's task by its id and got 404
C8_Witness ==
    /\ last.op \in {"update_task", "delete_task", "update_task_status"}
    /\ last.ran
    /\ last.task_id \in DOMAIN tasks
    /\ tasks[last.task_id].user_id # last.user.user_id
    /\ last.status = 404

C16_StoredStatus ==
    /\ \A id \in DOMAIN tasks : tasks[id].status \in Statuses
    /\ (last.op = "create_task" /\ last.status = 201)
          => tasks[last.task_id].status = "pending"
    /\ (last.op = "get_stats" /\ last.ran)
          => last.stats.total_tasks
                = last.stats.completed_tasks + last.stats.pending_tasks
                  + last.stats.in_progress_tasks

C16_Rejected ==
    ( /\ last'.op = "update_task_status"
      /\ last'.status = 400 )
    => (last'.error = "Invalid status" /\ tasks' = tasks)

\* C16: after any sequence of create, PUT, PATCH status and delete every
\* stored task's status is pending, in_progress or completed; a new task is
\* pending; a status request with another value is answered 'Invalid status'
\* and changes nothing; the stats' total_tasks is the sum of its completed,
\* pending and in_progress counts.
C16_StatusValid == []C16_StoredStatus /\ [][C16_Rejected]_vars

C17_SetIffCompleted ==
    \A id \in DOMAIN tasks :
        (tasks[id].completed_at # NoTime) <=> (tasks[id].status = "completed")

C17_Kept ==
    \A id \in DOMAIN tasks \cap DOMAIN tasks' :
        /\ (tasks[id].status = "completed" /\ tasks'[id].status = "completed")
              => tasks'[id].completed_at = tasks[id].completed_at
        /\ (tasks[id].status # "completed" /\ tasks'[id].status = "completed")
              => tasks'[id].completed_at = << now >>

\* C17: after any sequence of create, PUT and PATCH status on a task its
\* completed_at is set if and only if its status is completed: set when the
\* task becomes completed, kept when a completed task is completed again,
\* cleared when the status becomes anything else.
C17_CompletedAt == []C17_SetIffCompleted /\ [][C17_Kept]_vars

---------------------------------------------------------------------------
(* Properties of the login callback and the refresh exchange *)

\* The rows a user table holds for a subject id
RowsOf(table, azure_id) ==
    { u \in DOMAIN table : table[u].azure_id = azure_id }

\* The step is a login callback that got a profile from the provider
CallbackStep == last'.op = "auth_callback" /\ last' # last /\ last'.status # 400

C11_OnePerSubject ==
    \A u \in DOMAIN users : \A v \in DOMAIN users :
        users[u].azure_id = users[v].azure_id => u = v

C11_Callback ==
    CallbackStep =>
        LET before == RowsOf(users, last'.user_info.id)
            after == RowsOf(users', last'.user_info.id)
        IN /\ before = {}
                => /\ Cardinality(after) = 1
                   /\ DOMAIN users' \ DOMAIN users = after
           /\ before # {}
                => /\ DOMAIN users' = DOMAIN users
                   /\ after = before
                   /\ \A u \in after : users'[u].last_login = now
                   /\ IsJwt(last'.access_token)
                   /\ IsJwt(last'.refresh_token)
                   /\ last'.access_token[1].payload.user_id \in before
                   /\ last'.refresh_token[1].payload.user_id \in before

\* C11: a login callback for a subject id without a local user creates
\* exactly one user record for it; one for a subject id that has a local user
\* creates none, sets that user's last_login to the current time and issues an
\* access and a refresh token carrying that record's id; no two user records
\* ever share a subject id.
C11_FindOrCreate == []C11_OnePerSubject /\ [][C11_Callback]_vars

C13_Accepted ==
    \A h \in held :
        ( /\ last.op = "verify_token"
          /\ last.token = h.token
          /\ last.at < ExpiresAt(h.token) )
        => /\ last.result # None
           /\ last.result.user_id = h.args[1]

C13_Unaffected ==
    /\ now' = now
          => \A token \in HeldTokens :
                (verify_token(token, now))' = verify_token(token, now)
    /\ (last'.op = "verify_token" /\ last' # last)
          => /\ last'.result = verify_token(last'.token, now)
             /\ UNCHANGED <<held, tasks, nextId, users, nextUser, session>>

\* C13: what verify_token returns depends on the token and the clock only:
\* no login, logout, refresh exchange or removal of a user record changes it,
\* and verifying changes no stored state; so a token the server issued is
\* accepted at every instant before its expiry, also after logout and after
\* the user record is gone.
C13_PureVerification == []C13_Accepted /\ [][C13_Unaffected]_vars

\* Right after a logout the access token of a user whose record is gone is
\* still accepted
C13_Witness ==
    \E h \in held :
        /\ last.op = "logout"
        /\ session = NoSession
        /\ h.op = "create_access_token"
        /\ h.args[1] \notin DOMAIN users
        /\ now < ExpiresAt(h.token)
        /\ verify_token(h.token, now) # None

\* The step is a refresh exchange
RefreshStep == last'.op = "refresh" /\ last' # last

C14_Exchange ==
    RefreshStep =>
        LET payload == IF last'.token = NoString
                       THEN None
                       ELSE verify_refresh_token(last'.token, now)
            ok == payload # None /\ payload.user_id \in DOMAIN users
        IN /\ (last'.status = 200) <=> ok
           /\ ok => /\ IsJwt(last'.access_token)
                    /\ verify_token(last'.access_token, now) # None
                    /\ verify_refresh_token(last'.access_token, now) = None
                    /\ LET new == last'.access_token[1].payload
                           user == users[payload.user_id]
                       IN /\ new.user_id = payload.user_id
                          /\ new.email = user.email
                          /\ new.name = user.name
           /\ ~ok => /\ last'.status \in {400, 401, 404}
                     /\ last'.error # NoValue
                     /\ last'.access_token = NoString
                     /\ held' = held
           /\ \A h \in held' \ held : h.op = "create_access_token"
           /\ UNCHANGED <<users, nextUser, session>>

\* C14: the refresh exchange returns a new access token exactly when the
\* token it is given passes verify_refresh_token and its user_id names a
\* stored user; the new token carries that user's id and the email and name
\* stored for it; otherwise (no token, an access token, an expired or invalid
\* token, an unknown user) it answers with an error and issues nothing; it
\* never issues a refresh token.
C14_RefreshExchange == [][C14_Exchange]_vars

\* A refresh token was exchanged, after the access token issued with it had
\* expired, for an access token of the user it names
C14_Witness ==
    \E h \in held :
        /\ last.op = "refresh"
        /\ h.op = "create_refresh_token"
        /\ last.token = h.token
        /\ last.at >= ExpiresAt(h.token) - RefreshDelta + AccessDelta
        /\ last.status = 200
        /\ last.access_token[1].payload.user_id = h.args[1]
        /\ h.args[1] \in DOMAIN users
        /\ last.access_token[1].payload.email = users[h.args[1]].email

\* C19: however the lookups, commits and answers of login callbacks for one
\* subject id interleave, the user table never holds two records for the
\* subject, and the access and refresh tokens a callback returns carry the id
\* of the one stored record; a callback whose commit is refused returns no
\* token.
C19_RaceFree ==
    /\ \A sub \in Subjects : Cardinality(RowsOf(users, sub)) <= 1
    /\ (last.op = "auth_callback" /\ last.status \in {200, 302})
          => /\ RowsOf(users, last.user_info.id) = {last.user_id}
             /\ last.access_token[1].payload.user_id = last.user_id
             /\ last.refresh_token[1].payload.user_id = last.user_id
    /\ (last.op = "auth_callback" /\ last.status \notin {200, 302})
          => (last.access_token = NoString /\ last.refresh_token = NoString)
    /\ \A h \in held :
          /\ h.token[1].payload.user_id = h.args[1]
          /\ h.args[1] \in DOMAIN users

\* A callback whose lookup found no user for its subject id lost the race:
\* its commit was refused while the other worker's record is stored
C19_Witness ==
    /\ last.op = "auth_callback"
    /\ last.status = 500
    /\ last.found = {}
    /\ Cardinality(RowsOf(users, last.user_info.id)) = 1
    /\ \E h \in held : users[h.args[1]].azure_id = last.user_info.id

====
